---------------------------- MODULE Spec2Model ----------------------------
(***************************************************************************)
(* Model of the Nutrition-Analyst scoring path:                            *)
(*   benchmarks.py        SCORING_THRESHOLDS, DAILY_REFERENCE_VALUES,      *)
(*                        calculate_who_fda_score                          *)
(*   nutrition_loader.py  extract_nutrition_info, calculate_health_score,  *)
(*                        _generate_explanation                            *)
(*                                                                         *)
(* Numbers: the program computes in binary64.  A double is written as the  *)
(* pair (v, e): v is the decimal it stands for, in thousandths (a quantity *)
(* q is the integer q * Unit), and e is what the double differs from       *)
(* v / 1000 by, counted in units of 2^-60 / 1000.  A double that is the    *)
(* decimal exactly has e = 0.  After every arithmetic operation the exact  *)
(* result is rounded to the nearest double, ties to the even one           *)
(* (Round64).  The input values are multiples of 0.05, so that the         *)
(* decimal part of the program's "/ 50" stays in thousandths.              *)
(* A Python number is [t, s, v, e]: t is "int" or "float" (value v, e), or *)
(* "nan", "inf", "ninf" for the three non-finite floats.  Other Python     *)
(* values use the same shape: t = "str" (text s) and t = "NoneType".       *)
(* A recorded penalty keeps the two parts of its double in the fields      *)
(* penalty and err.                                                        *)
(***************************************************************************)
EXTENDS Integers, Sequences, FiniteSets, TLC

VARIABLES
    scoring_thresholds,      \* module global SCORING_THRESHOLDS
    daily_reference_values,  \* module global DAILY_REFERENCE_VALUES
    nutrients,               \* the dict handed to calculate_who_fda_score
    product_data,            \* the dict handed to extract_nutrition_info
    nutrition_info,          \* what extract_nutrition_info returned
    result,                  \* what calculate_who_fda_score returned
    health,                  \* what calculate_health_score returned
    all_citations,           \* what get_all_citations returned
    pc,                      \* position of the sequential caller
    th                       \* the concurrent callers (specification SpecThreads)

vars == <<scoring_thresholds, daily_reference_values, nutrients, product_data,
          nutrition_info, result, health, all_citations, pc, th>>

Unit == 10 * 10 * 10

-----------------------------------------------------------------------------
(* binary64 arithmetic *)

\* 2^k mod m
RECURSIVE Pow2Mod(_, _)
Pow2Mod(k, m) ==
    IF k = 0 THEN 1 % m
    ELSE LET h == Pow2Mod(k \div 2, m)
         IN  IF k % 2 = 0 THEN (h * h) % m ELSE (2 * h * h) % m

\* a / 1000 >= 2^j, for a in thousandths
AtLeast(a, j) ==
    IF j >= 0 THEN a >= Unit * 2^j ELSE a >= (Unit + 2^(-j) - 1) \div 2^(-j)

\* the largest i <= j with a / 1000 >= 2^i, and -10 at the least, for a > 0
RECURSIVE Log2(_, _)
Log2(a, j) == IF j = -10 \/ AtLeast(a, j) THEN j ELSE Log2(a, j - 1)

\* the exponent of the double a / 1000 + d: d is a small difference, so that
\* it matters only where a / 1000 is a power of two (a = 125 * 2^(j + 3))
Exponent(a, d, j) ==
    IF d < 0 /\ j >= -3 /\ a = 125 * 2^(j + 3) THEN j - 1 ELSE j

\* Where m / 1000 + d, in units of 2^-60 / 1000, lies between two doubles:
\* the doubles of exponent g - 12 are 125 * c * 2^(g - 1) of the units
\* 2^-60 / (1000 * c) apart, and the result is the distance from the last
\* double that is an even multiple of that gap.
Position(m, d, K, g) ==
    (2^g * (((m % K) * Pow2Mod(60 - g, K)) % K) + d) % (K * 2^g)

\* the difference d moved to the nearest double: down by the remainder, or up
\* to the next double; a remainder of half a gap goes to the even double
Nearest(d, ulp, Y) ==
    IF 2 * (Y % ulp) > ulp \/ (2 * (Y % ulp) = ulp /\ Y >= ulp)
    THEN d + (ulp - (Y % ulp))
    ELSE d - (Y % ulp)

\* m / 1000 + d >= 0 divided by c and rounded, g - 12 being the exponent of
\* the quotient; magnitudes from 4096 on (from 128 on for c = 50) are beyond
\* the integers used here and are left unrounded
Rounded(m, d, c, g) ==
    IF g < 1 \/ g > 23 \/ c * 2^g > 2^23
    THEN d \div c
    ELSE Nearest(d, 125 * c * 2^(g - 1), Position(m, d, 125 * c, g)) \div c

\* the same for a magnitude m / 1000 + d of either sign
Magnitude(m, d, c) ==
    Rounded(m, d, c, Exponent(m \div c, d, Log2(m \div c, 12)) + 12)

\* The double nearest to (v / 1000 + e) / c, ties to even, as the pair of its
\* decimal v / c and its difference from it; c divides v.  Multiples of 1/8
\* are doubles, and so is a difference alone (v = 0).
Round64(v, e, c) ==
    IF v = 0 \/ (e = 0 /\ v % (125 * c) = 0)
    THEN [v |-> v \div c, e |-> e \div c]
    ELSE IF v < 0
    THEN [v |-> v \div c, e |-> 0 - Magnitude(0 - v, 0 - e, c)]
    ELSE [v |-> v \div c, e |-> Magnitude(v, e, c)]

\* the arithmetic of doubles x, y and small integers k
Exactly(v) == [v |-> v, e |-> 0]
Sub64(x, y) == Round64(x.v - y.v, x.e - y.e, 1)
Add64(x, y) == Round64(x.v + y.v, x.e + y.e, 1)
Mul64(x, k) == Round64(x.v * k, x.e * k, 1)
Div64(x, k) == Round64(x.v, x.e, k)

\* x < y for doubles
Less64(x, y) == x.v < y.v \/ (x.v = y.v /\ x.e < y.e)

-----------------------------------------------------------------------------
(* Python values *)

PyInt(v)   == [t |-> "int",      s |-> "", v |-> v, e |-> 0]
\* the float written as the decimal v / 1000: the double nearest to it
PyFloat(v) == [t |-> "float",    s |-> "", v |-> v, e |-> Round64(v, 0, 1).e]
PyStr(s)   == [t |-> "str",      s |-> s,  v |-> 0, e |-> 0]
PyNaN      == [t |-> "nan",      s |-> "", v |-> 0, e |-> 0]
PyInf      == [t |-> "inf",      s |-> "", v |-> 0, e |-> 0]
PyNegInf   == [t |-> "ninf",     s |-> "", v |-> 0, e |-> 0]
PyNone     == [t |-> "NoneType", s |-> "", v |-> 0, e |-> 0]

IsFinite(x) == x.t \in {"int", "float"}

\* x > c, x >= c, x <= c for a Python number x and a finite cutoff c (in ticks);
\* every comparison with nan is False.
Gt(x, c) == (IsFinite(x) /\ Less64(Exactly(c), x)) \/ x.t = "inf"
Ge(x, c) == (IsFinite(x) /\ ~Less64(x, Exactly(c))) \/ x.t = "inf"
Le(x, c) == (IsFinite(x) /\ ~Less64(Exactly(c), x)) \/ x.t = "ninf"

\* val != text : only a str can be equal to a str
PyNeStr(val, text) == ~(val.t = "str" /\ val.s = text)

Min(a, b) == IF a <= b THEN a ELSE b
Max(a, b) == IF a >= b THEN a ELSE b

\* The literals float() accepts, among the strings the model feeds it.
FloatLiterals ==
    ("12.5" :> PyFloat(12500)) @@ ("nan" :> PyNaN) @@ ("inf" :> PyInf)

Returned(x) == [raised |-> "", x |-> x]
Raised(e)   == [raised |-> e, x |-> PyNone]

\* builtin float(val)
float(val) ==
    CASE val.t = "int"      -> Returned(PyFloat(val.v))
      [] val.t = "str"      -> IF val.s \in DOMAIN FloatLiterals
                               THEN Returned(FloatLiterals[val.s])
                               ELSE Raised("ValueError")
      [] val.t = "NoneType" -> Raised("TypeError")
      [] OTHER              -> Returned(val)

\* Times1000 with the grams-to-milligrams factor left out
Times1000Dropped(x) == x

\* x * 1000 for a Python number x
Times1000(x) ==
    IF IsFinite(x)
    THEN [x EXCEPT !.v = Mul64(x, 1000).v, !.e = Mul64(x, 1000).e]
    ELSE x

\* CappedPenalty without its min(cap, ...)
UncappedPenalty(cap, x, cutoff, num, den) ==
    IF IsFinite(x)
    THEN Div64(Mul64(Sub64(x, Exactly(cutoff)), num), den)
    ELSE Exactly(cap * Unit)

\* min(cap, (x - cutoff) * num / den), taken only where x > cutoff; one of num
\* and den is 1
CappedPenalty(cap, x, cutoff, num, den) ==
    LET penalty == Div64(Mul64(Sub64(x, Exactly(cutoff)), num), den)
    IN  IF IsFinite(x) /\ Less64(penalty, Exactly(cap * Unit))
        THEN penalty
        ELSE Exactly(cap * Unit)

\* round(score): to the nearest integer, ties to the even one
round(score) ==
    LET q == score.v \div Unit
        r == score.v % Unit
    IN  IF 2 * r < Unit THEN q
        ELSE IF 2 * r > Unit THEN q + 1
        ELSE IF score.e < 0 THEN q
        ELSE IF score.e > 0 THEN q + 1
        ELSE IF q % 2 = 0 THEN q ELSE q + 1

-----------------------------------------------------------------------------
(* benchmarks.py: the tables *)

FDA_DRV == "FDA Daily Reference Values (2016)"
WHO_SUGARS == "WHO Guideline: Sugars intake for adults and children (2015)"
WHO_DIET == "WHO Diet, nutrition and the prevention of chronic diseases (2003)"
WHO_SODIUM == "WHO Guideline: Sodium intake for adults and children (2012)"
UK_FSA == "UK Food Standards Agency Traffic Light Labelling (2013)"
EU_CLAIMS == "EU Nutrition and Health Claims Regulation (2006)"

FDA_URL ==
    "https://www.fda.gov/food/nutrition-facts-label/daily-value-nutrition-and-supplement-facts-labels"

\* the keys of each table in the order of their declaration (the order a dict
\* is iterated in)
DAILY_REFERENCE_KEYS ==
    <<"energy_kcal", "sugar", "saturated_fat", "sodium", "fiber", "protein">>

SCORING_THRESHOLD_KEYS == <<"sugar", "saturated_fat", "sodium", "fiber">>

DAILY_REFERENCE_VALUES ==
    [energy_kcal   |-> [reference |-> 2000 * Unit, citation |-> FDA_DRV,
                        url |-> FDA_URL],
     sugar         |-> [max_daily |-> 50 * Unit, citation |-> WHO_SUGARS,
                        url |-> "https://www.who.int/publications/i/item/9789241549028",
                        explanation |-> "WHO strongly recommends reducing free sugars to less than 10% of total energy intake"],
     saturated_fat |-> [max_daily |-> 20 * Unit, citation |-> WHO_DIET,
                        url |-> "https://www.who.int/publications/i/item/924120916X",
                        explanation |-> "Saturated fat intake should be less than 10% of total energy intake"],
     sodium        |-> [max_daily |-> 2000 * Unit, citation |-> WHO_SODIUM,
                        url |-> "https://www.who.int/publications/i/item/9789241504836",
                        explanation |-> "WHO recommends reducing sodium intake to less than 2000 mg/day (5g salt)"],
     fiber         |-> [min_daily |-> 25 * Unit, citation |-> FDA_DRV,
                        url |-> FDA_URL,
                        explanation |-> "Adequate fiber intake is associated with reduced risk of chronic diseases"],
     protein       |-> [reference_daily |-> 50 * Unit, citation |-> FDA_DRV,
                        url |-> FDA_URL,
                        explanation |-> "Daily reference value for protein based on a 2000 kcal diet"]]

\* the explanation is a paragraph in the source; its first words stand for it,
\* and the citation is written here without the accent of "Sante"
NUTRISCORE_INFO ==
    [name        |-> "Nutri-Score",
     citation    |-> "Sante Publique France - Nutri-Score (2017)",
     url         |-> "https://www.santepubliquefrance.fr/en/nutri-score",
     explanation |-> "The Nutri-Score is a front-of-pack nutrition label ..."]

\* declared between NUTRISCORE_INFO and SCORING_THRESHOLDS; no function reads it
\* (explanation shortened as above)
NOVA_CLASSIFICATION ==
    [name        |-> "NOVA Food Classification",
     citation    |-> "Monteiro CA, et al. Ultra-processed foods: what they are and how to identify them. Public Health Nutrition (2019)",
     url         |-> "https://www.fao.org/3/ca5644en/ca5644en.pdf",
     explanation |-> "NOVA is a food classification system ..."]

SCORING_THRESHOLDS ==
    [sugar         |-> [low |-> 5000, medium |-> 22500, high |-> 22500,
                        citation |-> UK_FSA,
                        explanation |-> "Traffic light criteria for sugar content per 100g"],
     saturated_fat |-> [low |-> 1500, medium |-> 5000, high |-> 5000,
                        citation |-> UK_FSA,
                        explanation |-> "Traffic light criteria for saturated fat content per 100g"],
     sodium        |-> [low |-> 300, medium |-> 1500, high |-> 1500,
                        citation |-> UK_FSA,
                        explanation |-> "Traffic light criteria for sodium/salt content per 100g"],
     fiber         |-> [high |-> 6000, very_high |-> 12000,
                        citation |-> EU_CLAIMS,
                        explanation |-> "EU criteria for 'source of fiber' and 'high in fiber' claims"]]

-----------------------------------------------------------------------------
(* benchmarks.py: calculate_who_fda_score *)

\* get_value that knows the empty string only
get_value_OnlyEmpty(nutr, key) ==
    LET val == IF key \in DOMAIN nutr THEN nutr[key] ELSE PyInt(0)
    IN  IF PyNeStr(val, "") THEN float(val) ELSE Returned(PyInt(0))

\* nutrients.get(key, 0), then float() unless the value is "N/A" or ""
get_value(nutr, key) ==
    LET val == IF key \in DOMAIN nutr THEN nutr[key] ELSE PyInt(0)
    IN  IF PyNeStr(val, "N/A") /\ PyNeStr(val, "")
        THEN float(val)
        ELSE Returned(PyInt(0))

\* the six reads of lines 151-156, in order; the first one that raises ends the call
ScoredKeys ==
    <<"sugars", "saturated_fat", "sodium", "fiber", "proteins", "energy_kcal">>

ReadValues(nutr) ==
    LET got == [i \in 1..Len(ScoredKeys) |-> get_value(nutr, ScoredKeys[i])]
        bad == {i \in 1..Len(ScoredKeys) : got[i].raised # ""}
        first == CHOOSE i \in bad : \A j \in bad : i <= j
    IN  IF bad # {}
        THEN [raised |-> got[first].raised]
        ELSE [raised  |-> "",
              sugar   |-> got[1].x,
              sat_fat |-> got[2].x,
              sodium  |-> Times1000(got[3].x),
              fiber   |-> got[4].x,
              protein |-> got[5].x,
              energy  |-> got[6].x]

\* lines 139-144
InitLocals ==
    [score |-> Exactly(100 * Unit), penalties |-> <<>>, bonuses |-> <<>>,
     citations_used |-> <<>>]

\* score -= penalty; breakdown["penalties"].append(entry); citations_used.append
AddPenalty(loc, entry) ==
    [loc EXCEPT !.score = Sub64(@, [v |-> entry.penalty, e |-> entry.err]),
                !.penalties = Append(@, entry),
                !.citations_used =
                    IF "citation" \in DOMAIN entry
                    THEN Append(@, entry.citation) ELSE @]

\* AddBonus that records the bonus and forgets to add it
AddBonusUnscored(loc, entry) ==
    [loc EXCEPT !.bonuses = Append(@, entry),
                !.citations_used =
                    IF "citation" \in DOMAIN entry
                    THEN Append(@, entry.citation) ELSE @]

\* score += bonus; breakdown["bonuses"].append(entry); citations_used.append
AddBonus(loc, entry) ==
    [loc EXCEPT !.score = Add64(@, Exactly(entry.bonus)),
                !.bonuses = Append(@, entry),
                !.citations_used =
                    IF "citation" \in DOMAIN entry
                    THEN Append(@, entry.citation) ELSE @]

ValueText(x, unit) == [number |-> x, unit |-> unit]
CutText(op, cut, unit) == [op |-> op, cut |-> cut, unit |-> unit]

\* SugarPenalty with the operands of the subtraction exchanged
SugarPenaltyReversed(sugar, T) ==
    LET penalty == Mul64(Sub64(Exactly(T.sugar.high), sugar), 2)
    IN  IF IsFinite(sugar) /\ Less64(penalty, Exactly(30 * Unit))
        THEN penalty
        ELSE Exactly(30 * Unit)

\* lines 158-176
SugarPenalty(sugar, T) == CappedPenalty(30, sugar, T.sugar.high, 2, 1)

SugarRule(loc, v, T) ==
    IF Gt(v.sugar, T.sugar.high)
    THEN AddPenalty(loc,
            [factor    |-> "High Sugar",
             value     |-> ValueText(v.sugar, "g per 100g"),
             penalty   |-> SugarPenalty(v.sugar, T).v,
             err       |-> SugarPenalty(v.sugar, T).e,
             threshold |-> CutText(">", T.sugar.high, "g"),
             citation  |-> T.sugar.citation])
    ELSE IF Le(v.sugar, T.sugar.low)
    THEN AddBonus(loc,
            [factor    |-> "Low Sugar",
             value     |-> ValueText(v.sugar, "g per 100g"),
             bonus     |-> 0,
             threshold |-> CutText("<=", T.sugar.low, "g")])
    ELSE loc

\* lines 178-189
SatFatPenalty(sat_fat, T) == CappedPenalty(25, sat_fat, T.saturated_fat.high, 3, 1)

SatFatRule(loc, v, T) ==
    IF Gt(v.sat_fat, T.saturated_fat.high)
    THEN AddPenalty(loc,
            [factor    |-> "High Saturated Fat",
             value     |-> ValueText(v.sat_fat, "g per 100g"),
             penalty   |-> SatFatPenalty(v.sat_fat, T).v,
             err       |-> SatFatPenalty(v.sat_fat, T).e,
             threshold |-> CutText(">", T.saturated_fat.high, "g"),
             citation  |-> T.saturated_fat.citation])
    ELSE loc

\* SodiumPenalty without its cap of 25
SodiumPenaltyUncapped(sodium) == UncappedPenalty(25, sodium, 600 * Unit, 1, 50)

\* lines 191-202
SodiumPenalty(sodium) == CappedPenalty(25, sodium, 600 * Unit, 1, 50)

SodiumRule(loc, v, T) ==
    IF Gt(v.sodium, 600 * Unit)
    THEN AddPenalty(loc,
            [factor    |-> "High Sodium",
             value     |-> ValueText(v.sodium, "mg per 100g"),
             penalty   |-> SodiumPenalty(v.sodium).v,
             err       |-> SodiumPenalty(v.sodium).e,
             threshold |-> CutText(">", 600 * Unit, "mg per 100g"),
             citation  |-> T.sodium.citation])
    ELSE loc

\* FiberRule with two independent tests in place of if / elif
FiberRuleBoth(loc, v, T) ==
    LET very == IF Ge(v.fiber, T.fiber.very_high)
                THEN AddBonus(loc,
                        [factor    |-> "Very High Fiber",
                         value     |-> ValueText(v.fiber, "g per 100g"),
                         bonus     |-> 15 * Unit,
                         threshold |-> CutText(">=", T.fiber.very_high, "g"),
                         citation  |-> T.fiber.citation])
                ELSE loc
    IN  IF Ge(v.fiber, T.fiber.high)
        THEN AddBonus(very,
                [factor    |-> "High Fiber",
                 value     |-> ValueText(v.fiber, "g per 100g"),
                 bonus     |-> 8 * Unit,
                 threshold |-> CutText(">=", T.fiber.high, "g"),
                 citation  |-> T.fiber.citation])
        ELSE very

\* lines 204-226
FiberRule(loc, v, T) ==
    IF Ge(v.fiber, T.fiber.very_high)
    THEN AddBonus(loc,
            [factor    |-> "Very High Fiber",
             value     |-> ValueText(v.fiber, "g per 100g"),
             bonus     |-> 15 * Unit,
             threshold |-> CutText(">=", T.fiber.very_high, "g"),
             citation  |-> T.fiber.citation])
    ELSE IF Ge(v.fiber, T.fiber.high)
    THEN AddBonus(loc,
            [factor    |-> "High Fiber",
             value     |-> ValueText(v.fiber, "g per 100g"),
             bonus     |-> 8 * Unit,
             threshold |-> CutText(">=", T.fiber.high, "g"),
             citation  |-> T.fiber.citation])
    ELSE loc

\* lines 228-239
ProteinRule(loc, v, D) ==
    IF Ge(v.protein, 10 * Unit)
    THEN AddBonus(loc,
            [factor    |-> "Good Protein Content",
             value     |-> ValueText(v.protein, "g per 100g"),
             bonus     |-> 10 * Unit,
             threshold |-> CutText(">=", 10 * Unit, "g per 100g"),
             citation  |-> D.protein.citation])
    ELSE loc

\* lines 241-250
EnergyPenalty(energy) == CappedPenalty(10, energy, 400 * Unit, 1, 50)

EnergyRule(loc, v) ==
    IF Gt(v.energy, 400 * Unit)
    THEN AddPenalty(loc,
            [factor    |-> "High Calorie Density",
             value     |-> ValueText(v.energy, " kcal per 100g"),
             penalty   |-> EnergyPenalty(v.energy).v,
             err       |-> EnergyPenalty(v.energy).e,
             threshold |-> CutText(">", 400 * Unit, " kcal per 100g")])
    ELSE loc

\* Clamp that only rounds
Unclamped(score) == round(score)

\* line 253
Clamp(score) == Max(0, Min(100, round(score)))

\* Band with strict comparisons
BandStrict(score) ==
    IF score > 80 THEN "A"
    ELSE IF score > 60 THEN "B"
    ELSE IF score > 40 THEN "C"
    ELSE IF score > 20 THEN "D"
    ELSE "E"

\* lines 255-265
Band(score) ==
    IF score >= 80 THEN "A"
    ELSE IF score >= 60 THEN "B"
    ELSE IF score >= 40 THEN "C"
    ELSE IF score >= 20 THEN "D"
    ELSE "E"

SeqRange(s) == {s[i] : i \in 1..Len(s)}

RECURSIVE Orderings(_)
\* list(set(xs)): the distinct elements, in an order the program does not fix
Orderings(S) ==
    IF S = {} THEN {<<>>}
    ELSE UNION {{<<x>> \o p : p \in Orderings(S \ {x})} : x \in S}

\* the six rules in the order of the code
AllRules(v, T, D) ==
    EnergyRule(
      ProteinRule(
        FiberRule(
          SodiumRule(
            SatFatRule(
              SugarRule(InitLocals, v, T), v, T), v, T), v, T), v, D), v)

\* ReturnValue that hands out citations_used as collected
ReturnValueAsCollected(loc, cits) ==
    [raised    |-> "",
     score     |-> Clamp(loc.score),
     band      |-> Band(Clamp(loc.score)),
     breakdown |-> [penalties |-> loc.penalties, bonuses |-> loc.bonuses],
     citations |-> loc.citations_used]

\* lines 252-272: the dict returned for the locals loc, its citations listed as cits
ReturnValue(loc, cits) ==
    [raised    |-> "",
     score     |-> Clamp(loc.score),
     band      |-> Band(Clamp(loc.score)),
     breakdown |-> [penalties |-> loc.penalties, bonuses |-> loc.bonuses],
     citations |-> cits]

\* every outcome of one call: a raised exception, or one dict per listing of the
\* citation set
calculate_who_fda_score(nutr, T, D) ==
    LET v == ReadValues(nutr)
    IN  IF v.raised # ""
        THEN {[raised |-> v.raised]}
        ELSE LET loc == AllRules(v, T, D)
             IN  {ReturnValue(loc, c) : c \in Orderings(SeqRange(loc.citations_used))}

-----------------------------------------------------------------------------
(* benchmarks.py: get_all_citations *)

\* lines 287-291, 294-298, 303-307: the dict appended for one table entry
CitationEntry(data) ==
    [title       |-> data.citation,
     url         |-> IF "url" \in DOMAIN data THEN data.url ELSE "",
     explanation |-> IF "explanation" \in DOMAIN data THEN data.explanation ELSE ""]

\* the loops of lines 285-291 and 301-307 over one table
RECURSIVE TableCitations(_, _)
TableCitations(table, keys) ==
    IF keys = <<>> THEN <<>>
    ELSE (IF "citation" \in DOMAIN table[Head(keys)]
          THEN <<CitationEntry(table[Head(keys)])>> ELSE <<>>)
         \o TableCitations(table, Tail(keys))

\* lines 309-316: the first entry of each title, in order
RECURSIVE UniqueCitations(_, _, _)
UniqueCitations(citations, seen, unique_citations) ==
    IF citations = <<>> THEN unique_citations
    ELSE IF Head(citations).title \in seen
         THEN UniqueCitations(Tail(citations), seen, unique_citations)
         ELSE UniqueCitations(Tail(citations), seen \cup {Head(citations).title},
                              Append(unique_citations, Head(citations)))

\* get_all_citations that returns the list before the duplicates are removed
CitationsWithDuplicates(D, T) ==
    TableCitations(D, DAILY_REFERENCE_KEYS)
        \o <<CitationEntry(NUTRISCORE_INFO)>>
        \o TableCitations(T, SCORING_THRESHOLD_KEYS)

\* lines 275-318
get_all_citations(D, T) ==
    UniqueCitations(TableCitations(D, DAILY_REFERENCE_KEYS)
                        \o <<CitationEntry(NUTRISCORE_INFO)>>
                        \o TableCitations(T, SCORING_THRESHOLD_KEYS),
                    {}, <<>>)

-----------------------------------------------------------------------------
(* nutrition_loader.py *)

NutrimentKeys ==
    <<"energy_kcal", "fat", "saturated_fat", "carbohydrates", "sugars",
      "fiber", "proteins", "salt", "sodium">>

\* the OpenFoodFacts key read for each field of "nutriments" (lines 71-79)
OffKey ==
    [k \in SeqRange(NutrimentKeys) |->
        CASE k = "energy_kcal"   -> "energy-kcal_100g"
          [] k = "fat"           -> "fat_100g"
          [] k = "saturated_fat" -> "saturated-fat_100g"
          [] k = "carbohydrates" -> "carbohydrates_100g"
          [] k = "sugars"        -> "sugars_100g"
          [] k = "fiber"         -> "fiber_100g"
          [] k = "proteins"      -> "proteins_100g"
          [] k = "salt"          -> "salt_100g"
          [] k = "sodium"        -> "sodium_100g"]

\* d.get(key, default)
Get(d, key, default) == IF key \in DOMAIN d THEN d[key] ELSE default

\* "not x" for the dicts and None the loader tests
Falsy(x) == x = PyNone

EmptyDict == [k \in {} |-> PyNone]

\* lines 52-85
extract_nutrition_info(pd) ==
    IF Falsy(pd) THEN PyNone
    ELSE LET nm == IF "nutriments" \in DOMAIN pd THEN pd.nutriments ELSE EmptyDict
         IN  [product_name     |-> Get(pd, "product_name", "Unknown Product"),
              brands           |-> Get(pd, "brands", "Unknown"),
              categories       |-> Get(pd, "categories", "Unknown"),
              ingredients_text |-> Get(pd, "ingredients_text", "Not available"),
              nutriments       |-> [k \in SeqRange(NutrimentKeys) |->
                                       Get(nm, OffKey[k], PyStr("N/A"))],
              nutriscore_grade |-> Get(pd, "nutriscore_grade", "N/A"),
              image_url        |-> Get(pd, "image_url", "")]

band_descriptions ==
    [A |-> "excellent nutritional quality",
     B |-> "good nutritional quality",
     C |-> "acceptable nutritional quality",
     D |-> "poor nutritional quality",
     E |-> "very poor nutritional quality"]

\* _generate_explanation without the branch for both counts positive
ExplanationWithoutMixed(product_name, score, band, good_count, concern_count) ==
    LET phrasing == IF concern_count = 0 /\ good_count > 0 THEN "all-good"
                    ELSE IF concern_count > 0 /\ good_count = 0 THEN "all-concern"
                    ELSE "neither"
    IN  [phrasing |-> phrasing, product_name |-> product_name, score |-> score,
         band |-> band, description |-> "", good_count |-> 0,
         concern_count |-> IF phrasing = "all-concern" THEN concern_count ELSE 0]

\* _generate_explanation reading its two counts in the other order
ExplanationCountsSwapped(product_name, score, band, good_count, concern_count) ==
    LET phrasing == IF good_count = 0 /\ concern_count > 0 THEN "all-good"
                    ELSE IF good_count > 0 /\ concern_count = 0 THEN "all-concern"
                    ELSE IF good_count > 0 /\ concern_count > 0 THEN "mixed"
                    ELSE "neither"
    IN  [phrasing |-> phrasing, product_name |-> product_name, score |-> score,
         band |-> band, description |-> "", good_count |-> concern_count,
         concern_count |-> good_count]

\* lines 135-166: the f-string chosen, with the values it interpolates
_generate_explanation(product_name, score, band, good_count, concern_count) ==
    LET description == IF band \in DOMAIN band_descriptions
                       THEN band_descriptions[band]
                       ELSE "moderate nutritional quality"
        phrasing == IF concern_count = 0 /\ good_count > 0 THEN "all-good"
                    ELSE IF concern_count > 0 /\ good_count = 0 THEN "all-concern"
                    ELSE IF concern_count > 0 /\ good_count > 0 THEN "mixed"
                    ELSE "neither"
    IN  [phrasing      |-> phrasing,
         product_name  |-> product_name,
         score         |-> score,
         band          |-> band,
         description   |-> description,
         good_count    |-> IF phrasing \in {"all-good", "mixed"}
                           THEN good_count ELSE 0,
         concern_count |-> IF phrasing \in {"all-concern", "mixed"}
                           THEN concern_count ELSE 0]

\* f"{bonus['factor']}: {bonus['value']}"
GoodPoint(bonus) == [factor |-> bonus.factor, value |-> bonus.value]

\* Concern formatted like a good point, without the threshold
ConcernWithoutThreshold(penalty) ==
    [factor |-> penalty.factor, value |-> penalty.value]

\* f"{penalty['factor']}: {penalty['value']} (threshold: {penalty['threshold']})"
Concern(penalty) ==
    [factor |-> penalty.factor, value |-> penalty.value,
     threshold |-> penalty.threshold]

Literal(text) == [literal |-> text]

NoGoodPoints == <<Literal("No significant positive nutritional factors")>>
NoConcerns == <<Literal("No major nutritional concerns identified")>>

\* lines 106-133, for one dict score_result returned by the engine
FormatResult(info, score_result) ==
    LET bonuses == score_result.breakdown.bonuses
        penalties == score_result.breakdown.penalties
        good_points == [i \in 1..Len(bonuses) |-> GoodPoint(bonuses[i])]
        concerns == [i \in 1..Len(penalties) |-> Concern(penalties[i])]
    IN  [raised      |-> "",
         score       |-> score_result.score,
         band        |-> score_result.band,
         good_points |-> IF Len(good_points) > 0 THEN good_points ELSE NoGoodPoints,
         concerns    |-> IF Len(concerns) > 0 THEN concerns ELSE NoConcerns,
         explanation |-> _generate_explanation(info.product_name,
                             score_result.score, score_result.band,
                             Len(good_points), Len(concerns)),
         citations   |-> score_result.citations,
         breakdown   |-> score_result.breakdown]

\* lines 87-133: every outcome of one call (None, a raised exception, or a dict)
calculate_health_score(info, T, D) ==
    IF Falsy(info) THEN {PyNone}
    ELSE {IF r.raised # "" THEN r ELSE FormatResult(info, r) :
            r \in calculate_who_fda_score(info.nutriments, T, D)}

-----------------------------------------------------------------------------
(* The records the callers pass in *)

\* At most MaxSpecial of the six scored fields hold a value that is not a
\* plain number of the grid.
MaxSpecial == 1

\* marks a key the dict does not hold
Absent == [t |-> "absent", s |-> "", v |-> 0]

Specials ==
    {Absent, PyStr("N/A"), PyStr(""), PyStr("abc"), PyNone}

Floats(S) == {PyFloat(x) : x \in S}

\* per field: the cutoffs of its rule, a value just off each cutoff and a value
\* past the cap
SugarGrid   == {PyInt(5000)} \cup Floats({-1000, 22500, 25250, 60000})
SatFatGrid  == {PyInt(5000)} \cup Floats({5500, 20000})
SodiumGrid  == Floats({600, 625, 2500})
FiberGrid   == {PyInt(6000)} \cup Floats({5750, 12000})
ProteinGrid == Floats({9750, 10000})
EnergyGrid  == {PyInt(400000)} \cup Floats({425000, 1000000})

Pick(key, special, grid) == IF key \in special THEN Specials ELSE grid

GridRecords ==
    UNION {[sugars        : Pick("sugars", S, SugarGrid),
            saturated_fat : Pick("saturated_fat", S, SatFatGrid),
            sodium        : Pick("sodium", S, SodiumGrid),
            fiber         : Pick("fiber", S, FiberGrid),
            proteins      : Pick("proteins", S, ProteinGrid),
            energy_kcal   : Pick("energy_kcal", S, EnergyGrid)] :
           S \in {X \in SUBSET SeqRange(ScoredKeys) : Cardinality(X) <= MaxSpecial}}

\* the records of the documented scenarios
ScenarioA ==
    [sugars |-> PyFloat(3000), saturated_fat |-> PyFloat(500),
     sodium |-> PyFloat(100), fiber |-> PyFloat(14000),
     proteins |-> PyFloat(12000), energy_kcal |-> PyFloat(150000)]

ScenarioB ==
    [sugars |-> PyFloat(60000), saturated_fat |-> PyFloat(20000),
     sodium |-> PyFloat(2500), fiber |-> PyInt(0),
     proteins |-> PyInt(0), energy_kcal |-> PyFloat(600000)]

ScenarioCZero ==
    [sugars |-> PyFloat(25000), saturated_fat |-> PyInt(0),
     sodium |-> PyInt(0), fiber |-> PyFloat(8000),
     proteins |-> PyInt(0), energy_kcal |-> PyInt(0)]

ScenarioCMissing ==
    [sugars |-> PyFloat(25000), saturated_fat |-> Absent,
     sodium |-> Absent, fiber |-> PyFloat(8000),
     proteins |-> Absent, energy_kcal |-> Absent]

Sugar1000 == [ScenarioCZero EXCEPT !.sugars = PyFloat(1000000)]

NothingKnown == [k \in SeqRange(ScoredKeys) |-> Absent]

\* the remaining floats and numeric strings, one field at a time
Oddities ==
    {[c EXCEPT ![k] = x] :
        c \in {ScenarioA, ScenarioB},
        k \in SeqRange(ScoredKeys),
        x \in {PyNaN, PyInf, PyNegInf, PyStr("12.5"), PyStr("nan"), PyStr("inf")}}

\* records of one-decimal values that are not doubles exactly and whose
\* adjustments add up to a total ending in .5
Ties ==
    {[sugars |-> PyFloat(28200), saturated_fat |-> PyFloat(2400),
      sodium |-> PyFloat(1900), fiber |-> PyFloat(2200),
      proteins |-> PyFloat(6400), energy_kcal |-> PyFloat(505000)],
     [sugars |-> PyFloat(31300), saturated_fat |-> PyFloat(11500),
      sodium |-> PyFloat(200), fiber |-> PyFloat(5200),
      proteins |-> PyFloat(3900), energy_kcal |-> PyFloat(420000)],
     [sugars |-> PyFloat(30200), saturated_fat |-> PyFloat(5900),
      sodium |-> PyFloat(1200), fiber |-> PyFloat(11600),
      proteins |-> PyFloat(24100), energy_kcal |-> PyFloat(420000)]}

Inputs ==
    GridRecords \cup Oddities \cup Ties \cup
    {ScenarioA, ScenarioB, ScenarioCZero, ScenarioCMissing, Sugar1000, NothingKnown}

Present(c) == {k \in DOMAIN c : c[k] # Absent}

\* the dict a direct caller of the engine passes
AsNutrients(c) == [k \in Present(c) |-> c[k]]

\* the product dict OpenFoodFacts returns for the same values
AsProduct(c) ==
    [product_name |-> "Oat Bar",
     nutriments   |-> [f \in {OffKey[k] : k \in Present(c)} |->
                          c[CHOOSE k \in Present(c) : OffKey[k] = f]]]

\* a product with no name and no nutriments
BareProduct == [brands |-> "Acme"]

-----------------------------------------------------------------------------
(* The sequential caller *)

NotYet == [pending |-> TRUE]

Idle == [t \in {} |-> NotYet]

Init ==
    /\ scoring_thresholds = SCORING_THRESHOLDS
    /\ daily_reference_values = DAILY_REFERENCE_VALUES
    /\ \/ \E c \in Inputs :
             /\ nutrients = AsNutrients(c)
             /\ product_data = AsProduct(c)
       \/ /\ nutrients = AsNutrients(NothingKnown)
          /\ product_data \in {PyNone, BareProduct}
    /\ nutrition_info = NotYet
    /\ result = NotYet
    /\ health = NotYet
    /\ all_citations = <<>>
    /\ pc = "start"
    /\ th = Idle

\* a direct call of calculate_who_fda_score(nutrients)
Score ==
    /\ pc = "start"
    /\ result' \in calculate_who_fda_score(nutrients, scoring_thresholds,
                                          daily_reference_values)
    /\ pc' = "scored"
    /\ UNCHANGED <<scoring_thresholds, daily_reference_values, nutrients,
                   product_data, nutrition_info, health, all_citations, th>>

\* nutrition_info = extract_nutrition_info(product_data)
Extract ==
    /\ pc = "start"
    /\ nutrition_info' = extract_nutrition_info(product_data)
    /\ pc' = "extracted"
    /\ UNCHANGED <<scoring_thresholds, daily_reference_values, nutrients,
                   product_data, result, health, all_citations, th>>

\* score_data = calculate_health_score(nutrition_info)
HealthScore ==
    /\ pc = "extracted"
    /\ health' \in calculate_health_score(nutrition_info, scoring_thresholds,
                                         daily_reference_values)
    /\ pc' = "analyzed"
    /\ UNCHANGED <<scoring_thresholds, daily_reference_values, nutrients,
                   product_data, nutrition_info, result, all_citations, th>>

\* a call of get_all_citations()
GetAllCitations ==
    /\ pc = "start"
    /\ all_citations' = get_all_citations(daily_reference_values, scoring_thresholds)
    /\ pc' = "cited"
    /\ UNCHANGED <<scoring_thresholds, daily_reference_values, nutrients,
                   product_data, nutrition_info, result, health, th>>

Next == Score \/ Extract \/ HealthScore \/ GetAllCitations

Spec == Init /\ [][Next]_vars

-----------------------------------------------------------------------------
(* Concurrent callers of calculate_who_fda_score: each call runs the function  *)
(* one block of statements at a time, on locals of its own, reading the       *)
(* module globals.                                                            *)

Threads == {"t1", "t2"}

\* calls one thread makes
MaxCalls == 2

ThreadInputs ==
    {ScenarioA, ScenarioB, ScenarioCZero, ScenarioCMissing,
     [ScenarioB EXCEPT !.fiber = PyStr("N/A"), !.proteins = PyFloat(12000)],
     [ScenarioA EXCEPT !.sodium = PyStr("abc")]}

IdleThread ==
    [pc |-> "idle", arg |-> NotYet, v |-> NotYet, loc |-> InitLocals,
     ret |-> NotYet, calls |-> 0]

\* Begin whose breakdown and citation lists outlive the call
BeginStale(old, nutr) ==
    [pc |-> "read", arg |-> nutr, v |-> NotYet,
     loc |-> [old.loc EXCEPT !.score = Exactly(100 * Unit)],
     ret |-> NotYet, calls |-> old.calls + 1]

\* function entry, lines 124-144: the argument is bound and the locals are fresh
Begin(old, nutr) ==
    [pc |-> "read", arg |-> nutr, v |-> NotYet, loc |-> InitLocals,
     ret |-> NotYet, calls |-> old.calls + 1]

InitThreads ==
    /\ scoring_thresholds = SCORING_THRESHOLDS
    /\ daily_reference_values = DAILY_REFERENCE_VALUES
    /\ nutrients = NotYet
    /\ product_data = NotYet
    /\ nutrition_info = NotYet
    /\ result = NotYet
    /\ health = NotYet
    /\ all_citations = <<>>
    /\ pc = "threads"
    /\ th = [t \in Threads |-> IdleThread]

ThreadStep(t, new) ==
    /\ th' = [th EXCEPT ![t] = new]
    /\ UNCHANGED <<scoring_thresholds, daily_reference_values, nutrients,
                   product_data, nutrition_info, result, health, all_citations,
                   pc>>

Call(t) ==
    /\ th[t].pc \in {"idle", "done"}
    /\ th[t].calls < MaxCalls
    /\ \E c \in ThreadInputs : ThreadStep(t, Begin(th[t], AsNutrients(c)))

\* lines 146-156
Read(t) ==
    /\ th[t].pc = "read"
    /\ LET v == ReadValues(th[t].arg)
       IN  IF v.raised # ""
           THEN ThreadStep(t, [th[t] EXCEPT !.pc = "done",
                                            !.ret = [raised |-> v.raised]])
           ELSE ThreadStep(t, [th[t] EXCEPT !.pc = "sugar", !.v = v])

Sugar(t) ==
    /\ th[t].pc = "sugar"
    /\ ThreadStep(t, [th[t] EXCEPT !.pc = "sat_fat",
                        !.loc = SugarRule(@, th[t].v, scoring_thresholds)])

SatFat(t) ==
    /\ th[t].pc = "sat_fat"
    /\ ThreadStep(t, [th[t] EXCEPT !.pc = "sodium",
                        !.loc = SatFatRule(@, th[t].v, scoring_thresholds)])

Sodium(t) ==
    /\ th[t].pc = "sodium"
    /\ ThreadStep(t, [th[t] EXCEPT !.pc = "fiber",
                        !.loc = SodiumRule(@, th[t].v, scoring_thresholds)])

Fiber(t) ==
    /\ th[t].pc = "fiber"
    /\ ThreadStep(t, [th[t] EXCEPT !.pc = "protein",
                        !.loc = FiberRule(@, th[t].v, scoring_thresholds)])

Protein(t) ==
    /\ th[t].pc = "protein"
    /\ ThreadStep(t, [th[t] EXCEPT !.pc = "energy",
                        !.loc = ProteinRule(@, th[t].v, daily_reference_values)])

Energy(t) ==
    /\ th[t].pc = "energy"
    /\ ThreadStep(t, [th[t] EXCEPT !.pc = "return",
                        !.loc = EnergyRule(@, th[t].v)])

\* lines 252-272
Return(t) ==
    /\ th[t].pc = "return"
    /\ \E cits \in Orderings(SeqRange(th[t].loc.citations_used)) :
          ThreadStep(t, [th[t] EXCEPT !.pc = "done",
                                      !.ret = ReturnValue(th[t].loc, cits)])

NextThreads ==
    \E t \in Threads :
        \/ Call(t)
        \/ Read(t)
        \/ Sugar(t)
        \/ SatFat(t)
        \/ Sodium(t)
        \/ Fiber(t)
        \/ Protein(t)
        \/ Energy(t)
        \/ Return(t)

SpecThreads == InitThreads /\ [][NextThreads]_vars

-----------------------------------------------------------------------------
(* Properties *)

RECURSIVE Total(_, _)
Total(entries, field) ==
    IF entries = <<>> THEN 0
    ELSE entries[1][field] + Total(Tail(entries), field)

\* 100 - penalties + bonuses, before rounding and clamping
RawScore(breakdown) ==
    100 * Unit - Total(breakdown.penalties, "penalty")
               + Total(breakdown.bonuses, "bonus")

Entries(entries, factor) ==
    {i \in 1..Len(entries) : entries[i].factor = factor}

ReturnedOk == pc = "scored" /\ result.raised = ""
AnalyzedOk == pc = "analyzed" /\ "raised" \in DOMAIN health /\ health.raised = ""

Holds(nutr, key, val) == key \in DOMAIN nutr /\ nutr[key] = val
IsRecord(nutr, c) ==
    /\ DOMAIN nutr = Present(c)
    /\ \A k \in Present(c) : nutr[k] = c[k]

Verdict(r) ==
    IF r.raised # "" THEN [raised |-> r.raised, score |-> 0, band |-> ""]
    ELSE [raised |-> "", score |-> r.score, band |-> r.band]

Engine(nutr) ==
    calculate_who_fda_score(nutr, SCORING_THRESHOLDS, DAILY_REFERENCE_VALUES)

With(nutr, key, val) ==
    [k \in DOMAIN nutr \cup {key} |-> IF k = key THEN val ELSE nutr[k]]

\* C1: every score the engine returns, directly or through
\* calculate_health_score, is an integer from 0 to 100.
C1_ScoreWithinBounds ==
    /\ ReturnedOk => result.score \in 0..100
    /\ AnalyzedOk => health.score \in 0..100

\* a call whose unclamped total is above 100 although one input is negative
C1_Witness ==
    /\ ReturnedOk
    /\ Holds(nutrients, "sugars", PyFloat(-1000))
    /\ RawScore(result.breakdown) > 100 * Unit
    /\ result.score = 100

BandRange ==
    [A |-> 80..100, B |-> 60..79, C |-> 40..59, D |-> 20..39, E |-> 0..19]

\* C2: the band is one of A..E and is the one whose range holds the returned
\* score: 80..100 A, 60..79 B, 40..59 C, 20..39 D, 0..19 E.
C2_BandFromScore ==
    ReturnedOk =>
        \E b \in DOMAIN BandRange :
            result.band = b /\ result.score \in BandRange[b]

\* a call that returns a score on a band boundary
C2_Witness == ReturnedOk /\ result.score = 80 /\ result.band = "A"

\* C3: with callers interleaved in any way, every call that ends has an outcome
\* a first call on its record has under the tables as declared (same score,
\* same penalties and bonuses, same set of citations, or the same exception),
\* the two tables keep their declared contents, and no step of a call changes
\* the record it was given.
C3_CallsAreIndependent ==
    /\ [](\A t \in Threads : th[t].pc = "done" => th[t].ret \in Engine(th[t].arg))
    /\ [](/\ scoring_thresholds = SCORING_THRESHOLDS
          /\ daily_reference_values = DAILY_REFERENCE_VALUES)
    /\ [][\A t \in Threads :
            th[t].pc \notin {"idle", "done"} => th'[t].arg = th[t].arg]_vars

\* t1 has ended its second call while t2 is in the middle of a call on
\* another record
C3_Witness ==
    /\ th["t1"].pc = "done"
    /\ th["t1"].calls = 2
    /\ th["t1"].ret.raised = ""
    /\ Len(th["t1"].ret.breakdown.penalties) > 0
    /\ th["t2"].pc = "fiber"
    /\ th["t2"].arg # th["t1"].arg

NonNumeric(val) ==
    \/ val.t = "NoneType"
    \/ val.t = "str" /\ val.s \notin DOMAIN FloatLiterals

\* the record with 0 in place of every field that is absent or not a number
ZeroSubstituted(nutr) ==
    [k \in SeqRange(ScoredKeys) |->
        IF k \notin DOMAIN nutr \/ NonNumeric(nutr[k]) THEN PyInt(0) ELSE nutr[k]]

\* C4: no nutrient value makes the engine raise: a field that is absent,
\* "N/A", "", an unparseable string or None is scored as 0 and the call returns.
C4_NeverRaises ==
    pc = "scored" =>
        /\ result.raised = ""
        /\ \E r \in Engine(ZeroSubstituted(nutrients)) : Verdict(r) = Verdict(result)

\* C5: a record holding "N/A" in a scored field gets the score and band of the
\* same record with 0 in that field, from the engine and from
\* calculate_health_score on the extracted product.
C5_NotAvailableScoresAsZero ==
    /\ pc = "scored" =>
          \A k \in DOMAIN nutrients :
              nutrients[k] = PyStr("N/A") =>
                  \A zero \in {PyInt(0), PyFloat(0)} :
                      \A r \in Engine(With(nutrients, k, zero)) :
                          Verdict(r) = Verdict(result)
    /\ (pc = "analyzed" /\ "raised" \in DOMAIN health) =>
          \A k \in SeqRange(ScoredKeys) :
              nutrition_info.nutriments[k] = PyStr("N/A") =>
                  \A r \in Engine(With(nutrition_info.nutriments, k, PyInt(0))) :
                      Verdict(r) = Verdict(health)

\* sugars is "N/A" and a penalty fired on another field
C5_Witness ==
    /\ ReturnedOk
    /\ Holds(nutrients, "sugars", PyStr("N/A"))
    /\ Len(result.breakdown.penalties) > 0
    /\ result.score < 100

HigherSugars == Floats({25000, 25250, 37500, 60000, 1000000}) \cup {PyInf}
VeryHighFiber == Floats({12000, 14000, 1000000}) \cup {PyInf}

\* C6: with sugars s1 > 22.5, no record that differs only by a sugars s2 >= s1
\* scores higher; with fiber f1 < 6, no record that differs only by a fiber
\* f2 >= 12 scores lower.
C6_Monotone ==
    ReturnedOk =>
        /\ ("sugars" \in DOMAIN nutrients /\ IsFinite(nutrients.sugars)
                /\ nutrients.sugars.v > 22500) =>
              \A s2 \in HigherSugars :
                  (s2.t = "inf" \/ ~Less64(s2, nutrients.sugars)) =>
                      \A r \in Engine(With(nutrients, "sugars", s2)) :
                          r.score <= result.score
        /\ ("fiber" \in DOMAIN nutrients /\ IsFinite(nutrients.fiber)
                /\ nutrients.fiber.v < 6000) =>
              \A f2 \in VeryHighFiber :
                  \A r \in Engine(With(nutrients, "fiber", f2)) :
                      r.score >= result.score

\* sugars just above the cutoff, in a record whose score is below 100 and
\* above the least score, so that a change either way would show
C6_Witness ==
    /\ ReturnedOk
    /\ Holds(nutrients, "sugars", PyFloat(25250))
    /\ Holds(nutrients, "fiber", PyFloat(5750))
    /\ result.score \in 50..90

PenaltyCap ==
    [factor \in {"High Sugar", "High Saturated Fat", "High Sodium",
                 "High Calorie Density"} |->
        CASE factor = "High Sugar"           -> 30 * Unit
          [] factor = "High Saturated Fat"   -> 25 * Unit
          [] factor = "High Sodium"          -> 25 * Unit
          [] factor = "High Calorie Density" -> 10 * Unit]

\* the uncapped value of a penalty for the observed number x, times 50
Linear50(factor, x) ==
    CASE factor = "High Sugar"           -> (x - 22500) * 100
      [] factor = "High Saturated Fat"   -> (x - 5000) * 150
      [] factor = "High Sodium"          -> x - 600000
      [] factor = "High Calorie Density" -> x - 400000

\* C7: each recorded penalty is the lesser of its cap (30, 25, 25, 10) and its
\* linear value; sugars = 1000 is penalised by exactly 30.
C7_PenaltiesCapped ==
    ReturnedOk =>
        /\ \A i \in 1..Len(result.breakdown.penalties) :
              LET p == result.breakdown.penalties[i]
                  x == p.value.number
              IN  /\ p.factor \in DOMAIN PenaltyCap
                  /\ p.penalty <= PenaltyCap[p.factor]
                  /\ IF IsFinite(x) /\ Linear50(p.factor, x.v) < 50 * PenaltyCap[p.factor]
                     THEN 50 * p.penalty = Linear50(p.factor, x.v)
                     ELSE p.penalty = PenaltyCap[p.factor]
        /\ Holds(nutrients, "sugars", PyFloat(1000000)) =>
              \E i \in Entries(result.breakdown.penalties, "High Sugar") :
                  result.breakdown.penalties[i].penalty = 30 * Unit

\* the record with sugars = 1000 has been scored
C7_Witness ==
    /\ ReturnedOk
    /\ Holds(nutrients, "sugars", PyFloat(1000000))
    /\ Len(result.breakdown.penalties) = 1

IsProduct(pd, c) ==
    /\ DOMAIN pd = {"product_name", "nutriments"}
    /\ DOMAIN pd.nutriments = {OffKey[k] : k \in Present(c)}
    /\ \A k \in Present(c) : pd.nutriments[OffKey[k]] = c[k]

Fired(entries, factor, field, amount) ==
    \E i \in Entries(entries, factor) : entries[i][field] = amount

\* C8: scenario A (fiber 14, proteins 12, sugars 3, saturated_fat 0.5,
\* sodium 0.1, energy_kcal 150): the fiber bonus 15 and the protein bonus 10
\* fire, no penalty fires, the total 125 is clamped to 100, the band is A,
\* concerns holds the sentinel alone and the explanation is the all-good one.
C8_ScenarioAllGood ==
    /\ (pc = "scored" /\ IsRecord(nutrients, ScenarioA)) =>
          /\ result.raised = ""
          /\ Fired(result.breakdown.bonuses, "Very High Fiber", "bonus", 15 * Unit)
          /\ Fired(result.breakdown.bonuses, "Good Protein Content", "bonus", 10 * Unit)
          /\ result.breakdown.penalties = <<>>
          /\ RawScore(result.breakdown) = 125 * Unit
          /\ result.score = 100
          /\ result.band = "A"
    /\ (pc = "analyzed" /\ IsProduct(product_data, ScenarioA)) =>
          /\ health.raised = ""
          /\ Fired(health.breakdown.bonuses, "Very High Fiber", "bonus", 15 * Unit)
          /\ Fired(health.breakdown.bonuses, "Good Protein Content", "bonus", 10 * Unit)
          /\ health.breakdown.penalties = <<>>
          /\ health.score = 100
          /\ health.band = "A"
          /\ health.concerns = NoConcerns
          /\ health.explanation.phrasing = "all-good"

\* scenario A has gone through extract_nutrition_info and calculate_health_score
C8_Witness ==
    /\ pc = "analyzed"
    /\ IsProduct(product_data, ScenarioA)
    /\ Len(health.good_points) = 3

\* C9: scenario B (sugars 60, saturated_fat 20, sodium 2.5, fiber 0,
\* proteins 0, energy_kcal 600): the penalties are 30, 25, 25 and 4, 84 in
\* all, the score is 16, the band is E, at least three concerns are reported,
\* three of the penalties carry a citation, and the explanation is the
\* all-concern one.
C9_ScenarioAllBad ==
    /\ (pc = "scored" /\ IsRecord(nutrients, ScenarioB)) =>
          /\ result.raised = ""
          /\ Fired(result.breakdown.penalties, "High Sugar", "penalty", 30 * Unit)
          /\ Fired(result.breakdown.penalties, "High Saturated Fat", "penalty", 25 * Unit)
          /\ Fired(result.breakdown.penalties, "High Sodium", "penalty", 25 * Unit)
          /\ Fired(result.breakdown.penalties, "High Calorie Density", "penalty", 4 * Unit)
          /\ Len(result.breakdown.penalties) = 4
          /\ Total(result.breakdown.penalties, "penalty") = 84 * Unit
          /\ result.score = 16
          /\ result.band = "E"
    /\ (pc = "analyzed" /\ IsProduct(product_data, ScenarioB)) =>
          /\ health.raised = ""
          /\ health.score = 16
          /\ health.band = "E"
          /\ Len(health.concerns) >= 3
          /\ \A i \in 1..Len(health.concerns) : "literal" \notin DOMAIN health.concerns[i]
          /\ Cardinality({i \in 1..Len(health.breakdown.penalties) :
                 "citation" \in DOMAIN health.breakdown.penalties[i]}) >= 3
          /\ Len(health.citations) >= 1
          /\ health.explanation.phrasing = "all-concern"

\* scenario B has gone through extract_nutrition_info and calculate_health_score
C9_Witness ==
    /\ pc = "analyzed"
    /\ IsProduct(product_data, ScenarioB)
    /\ Len(health.concerns) = 4

\* C10: scenario C (sugars 25, fiber 8, the rest 0 or absent) records one
\* penalty, High Sugar 5, and one bonus, High Fiber 8, and scores 100, clamped
\* from 103; whenever the bonuses exceed the penalties the score is 100.
C10_UpperClamp ==
    ReturnedOk =>
        /\ (IsRecord(nutrients, ScenarioCZero) \/ IsRecord(nutrients, ScenarioCMissing)) =>
              /\ Len(result.breakdown.penalties) = 1
              /\ Fired(result.breakdown.penalties, "High Sugar", "penalty", 5 * Unit)
              /\ Len(result.breakdown.bonuses) = 1
              /\ Fired(result.breakdown.bonuses, "High Fiber", "bonus", 8 * Unit)
              /\ RawScore(result.breakdown) = 103 * Unit
              /\ result.score = 100
        /\ Total(result.breakdown.bonuses, "bonus")
              > Total(result.breakdown.penalties, "penalty") => result.score = 100

\* scenario C with the other nutrients absent has been scored
C10_Witness ==
    /\ ReturnedOk
    /\ IsRecord(nutrients, ScenarioCMissing)
    /\ RawScore(result.breakdown) > 100 * Unit
\* the citation texts attached to the adjustments of a breakdown
CitedBy(breakdown) ==
    {breakdown.penalties[i].citation :
        i \in {j \in 1..Len(breakdown.penalties) :
                  "citation" \in DOMAIN breakdown.penalties[j]}}
    \cup
    {breakdown.bonuses[i].citation :
        i \in {j \in 1..Len(breakdown.bonuses) :
                  "citation" \in DOMAIN breakdown.bonuses[j]}}

\* C11: the returned citations hold no entry twice and are exactly the citation
\* texts of the penalties and bonuses recorded in the call; when the sugar and
\* the saturated-fat penalty both fire, their common source is listed once.
C11_CitationsAreTheFiredSet ==
    ReturnedOk =>
        /\ Cardinality(SeqRange(result.citations)) = Len(result.citations)
        /\ SeqRange(result.citations) = CitedBy(result.breakdown)
        /\ (/\ Entries(result.breakdown.penalties, "High Sugar") # {}
            /\ Entries(result.breakdown.penalties, "High Saturated Fat") # {}) =>
              Cardinality({i \in 1..Len(result.citations) :
                              result.citations[i] = UK_FSA}) = 1

\* the sugar and the saturated-fat penalty fired together with a fiber bonus
C11_Witness ==
    /\ ReturnedOk
    /\ Entries(result.breakdown.penalties, "High Sugar") # {}
    /\ Entries(result.breakdown.penalties, "High Saturated Fat") # {}
    /\ Entries(result.breakdown.bonuses, "High Fiber") # {}
    /\ Len(result.citations) = 2
\* good_points and concerns of health follow the engine's breakdown, with the
\* given sentinel texts where a list is empty, and score and band are the
\* engine's
FormattedFrom(good_sentinel, concern_sentinel) ==
    LET bonuses == health.breakdown.bonuses
        penalties == health.breakdown.penalties
    IN  /\ \E r \in Engine(nutrition_info.nutriments) :
              /\ r.breakdown = health.breakdown
              /\ r.score = health.score
              /\ r.band = health.band
        /\ IF Len(bonuses) = 0
           THEN health.good_points = <<[literal |-> good_sentinel]>>
           ELSE /\ Len(health.good_points) = Len(bonuses)
                /\ \A i \in 1..Len(bonuses) :
                      health.good_points[i] =
                          [factor |-> bonuses[i].factor, value |-> bonuses[i].value]
        /\ IF Len(penalties) = 0
           THEN health.concerns = <<[literal |-> concern_sentinel]>>
           ELSE /\ Len(health.concerns) = Len(penalties)
                /\ \A i \in 1..Len(penalties) :
                      health.concerns[i] =
                          [factor    |-> penalties[i].factor,
                           value     |-> penalties[i].value,
                           threshold |-> penalties[i].threshold]

\* C12 as claimed: one good point per bonus and one concern per penalty, in the
\* engine's order, or the sentinel "No significant positive nutritional
\* factors." / "No major nutritional concerns identified." (each ending in a
\* period) for an empty list; score and band are the engine's.
C12_AsClaimed ==
    AnalyzedOk =>
        FormattedFrom("No significant positive nutritional factors.",
                      "No major nutritional concerns identified.")

\* C12, amended: the same, with the sentinels as the loader spells them, without
\* the final period: "No significant positive nutritional factors" and
\* "No major nutritional concerns identified".
C12_FormatterFollowsBreakdown ==
    AnalyzedOk =>
        FormattedFrom("No significant positive nutritional factors",
                      "No major nutritional concerns identified")

\* a product with two penalties and no bonus: concerns are formatted, good_points
\* is the sentinel
C12_Witness ==
    /\ AnalyzedOk
    /\ Len(health.breakdown.penalties) = 2
    /\ Len(health.breakdown.bonuses) = 0
    /\ Len(health.concerns) = 2
    /\ Len(health.good_points) = 1
\* the phrasings a pair of counts allows
PhrasingsFor(concern_count, good_count) ==
    {p \in {"all-good", "all-concern", "mixed", "neither"} :
        \/ p = "all-good"    /\ concern_count = 0 /\ good_count > 0
        \/ p = "all-concern" /\ concern_count > 0 /\ good_count = 0
        \/ p = "mixed"       /\ concern_count > 0 /\ good_count > 0
        \/ p = "neither"     /\ concern_count = 0 /\ good_count = 0}

\* C13: the explanation's phrasing is the one the numbers of recorded penalties
\* and bonuses select (sentinels not counted): all-good for (0, >0), all-concern
\* for (>0, 0), mixed for (>0, >0), neither for (0, 0); exactly one applies.
C13_PhrasingFromCounts ==
    AnalyzedOk =>
        LET concern_count == Len(health.breakdown.penalties)
            good_count == Len(health.breakdown.bonuses)
        IN  /\ PhrasingsFor(concern_count, good_count) = {health.explanation.phrasing}
            /\ health.explanation.score = health.score
            /\ health.explanation.band = health.band
            /\ health.explanation.product_name = nutrition_info.product_name

\* a product with a penalty and a bonus, explained with the mixed phrasing
C13_Witness ==
    /\ AnalyzedOk
    /\ Len(health.breakdown.penalties) > 0
    /\ Len(health.breakdown.bonuses) > 0
    /\ health.explanation.phrasing = "mixed"
    /\ health.explanation.concern_count = Len(health.breakdown.penalties)
\* C14: the sodium entry of the threshold table, converted from grams to
\* milligrams, says low is <= 300 mg and high is > 600 mg, and the High Sodium
\* penalty is recorded exactly when the record's sodium exceeds the table's
\* high cutoff.
C14_SodiumRuleUsesRegistry ==
    ReturnedOk =>
        LET sodium_mg == Times1000(get_value(nutrients, "sodium").x)
            registry == scoring_thresholds.sodium
        IN  /\ registry.low * 1000 = 300 * Unit
            /\ registry.high * 1000 = 600 * Unit
            /\ Entries(result.breakdown.penalties, "High Sodium") # {}
                  <=> Gt(sodium_mg, registry.high * 1000)
\* the entries of the tables get_all_citations reads, one per declared
\* citation, in the order of their declaration in the file
Declared ==
    [i \in 1..Len(DAILY_REFERENCE_KEYS) |->
        daily_reference_values[DAILY_REFERENCE_KEYS[i]]]
    \o <<NUTRISCORE_INFO>>
    \o [i \in 1..Len(SCORING_THRESHOLD_KEYS) |->
        scoring_thresholds[SCORING_THRESHOLD_KEYS[i]]]

\* the position of the first declaration of a title in the entries declared
FirstDeclared(declared, title) ==
    CHOOSE i \in 1..Len(declared) :
        /\ declared[i].citation = title
        /\ \A k \in 1..(i - 1) : declared[k].citation # title

\* the list cited holds each title of the entries declared once, in the order
\* of first declaration, with the url and explanation of that declaration
ListsOnceInOrder(cited, declared) ==
    LET at == [i \in 1..Len(cited) |-> FirstDeclared(declared, cited[i].title)]
    IN  /\ \A i \in 1..Len(cited) :
              DOMAIN cited[i] = {"title", "url", "explanation"}
        /\ \A i, j \in 1..Len(cited) : cited[i].title = cited[j].title => i = j
        /\ {cited[i].title : i \in 1..Len(cited)}
              = {declared[k].citation : k \in 1..Len(declared)}
        /\ \A i \in 1..(Len(cited) - 1) : at[i] < at[i + 1]
        /\ \A i \in 1..Len(cited) :
              /\ cited[i].url = (IF "url" \in DOMAIN declared[at[i]]
                                 THEN declared[at[i]].url ELSE "")
              /\ cited[i].explanation
                    = (IF "explanation" \in DOMAIN declared[at[i]]
                       THEN declared[at[i]].explanation ELSE "")

\* C15: get_all_citations returns a sequence of {title, url, explanation}
\* entries in which no two entries have the same title, every citation title
\* declared in the tables it reads appears once, and the entries are in
\* declaration order, each title at the position of its first declaration and
\* with the url and explanation of that declaration.
C15_CitationsUniqueInDeclarationOrder ==
    pc = "cited" => ListsOnceInOrder(all_citations, Declared)

\* the call returned seven entries although eleven citations are declared:
\* the FDA title is declared three times and is listed first, the UK FSA title
\* three times and is listed sixth
C15_Witness ==
    /\ pc = "cited"
    /\ Len(Declared) = 11
    /\ Len(all_citations) = 7
    /\ all_citations[1].title = FDA_DRV
    /\ all_citations[1].explanation = ""
    /\ all_citations[5].title = NUTRISCORE_INFO.citation
    /\ all_citations[6].title = UK_FSA
    /\ all_citations[7].title = EU_CLAIMS
\* the six rules applied in the order given, from the locals loc
Rule(i, loc, v, T, D) ==
    CASE i = 1 -> SugarRule(loc, v, T)
      [] i = 2 -> SatFatRule(loc, v, T)
      [] i = 3 -> SodiumRule(loc, v, T)
      [] i = 4 -> FiberRule(loc, v, T)
      [] i = 5 -> ProteinRule(loc, v, D)
      [] i = 6 -> EnergyRule(loc, v)

RECURSIVE RulesIn(_, _, _, _, _)
RulesIn(order, loc, v, T, D) ==
    IF order = <<>> THEN loc
    ELSE RulesIn(Tail(order), Rule(Head(order), loc, v, T, D), v, T, D)

\* the order of the code, its reverse, and two more
RuleOrders ==
    {<<1, 2, 3, 4, 5, 6>>, <<6, 5, 4, 3, 2, 1>>,
     <<4, 5, 1, 2, 3, 6>>, <<6, 3, 2, 1, 5, 4>>}

\* 100 - penalties + bonuses as recorded, the doubles added without rounding
RecordedTotal(breakdown) ==
    [v |-> RawScore(breakdown), e |-> 0 - Total(breakdown.penalties, "err")]

\* C16: for every record the returned score is
\* max(0, min(100, round(100 - recorded penalties + recorded bonuses))), the
\* rounding done once on the total, and the score is the same in whatever
\* order the six rules are evaluated.
C16_RoundedOnceInAnyOrder ==
    ReturnedOk =>
        /\ result.score = Max(0, Min(100, round(RecordedTotal(result.breakdown))))
        /\ \A order \in RuleOrders :
              Clamp(RulesIn(order, InitLocals, ReadValues(nutrients),
                            SCORING_THRESHOLDS, DAILY_REFERENCE_VALUES).score)
                  = result.score
\* the fiber bonuses recorded, and what fiber was read as
FiberBonuses(bonuses) ==
    {i \in 1..Len(bonuses) : bonuses[i].factor \in {"Very High Fiber", "High Fiber"}}

FiberRead == get_value(nutrients, "fiber").x

\* C17: the fiber rule is mutually exclusive: at most one fiber bonus is
\* recorded per call, Very High Fiber with 15 when fiber >= 12, High Fiber with
\* 8 when 6 <= fiber < 12, none when fiber < 6; fiber never adds 23, and never
\* more than 15.
C17_FiberBonusExclusive ==
    ReturnedOk =>
        LET bonuses == result.breakdown.bonuses
            fiber == FiberBonuses(bonuses)
            very == Ge(FiberRead, 12 * Unit)
            high == Ge(FiberRead, 6 * Unit)
        IN  /\ Cardinality(fiber) <= 1
            /\ very => \E i \in fiber : /\ bonuses[i].factor = "Very High Fiber"
                                        /\ bonuses[i].bonus = 15 * Unit
            /\ (high /\ ~very) =>
                  \E i \in fiber : /\ bonuses[i].factor = "High Fiber"
                                   /\ bonuses[i].bonus = 8 * Unit
            /\ ~high => fiber = {}
            /\ Total([i \in 1..Len(bonuses) |->
                        IF i \in fiber THEN bonuses[i] ELSE [bonus |-> 0]],
                     "bonus") \in {0, 8 * Unit, 15 * Unit}

\* fiber 14 g: the very-high test and the high test both hold, and the one
\* bonus recorded is Very High Fiber, 15
C17_Witness ==
    /\ ReturnedOk
    /\ Holds(nutrients, "fiber", PyFloat(14000))
    /\ Cardinality(FiberBonuses(result.breakdown.bonuses)) = 1
    /\ Fired(result.breakdown.bonuses, "Very High Fiber", "bonus", 15 * Unit)
    /\ ~Fired(result.breakdown.bonuses, "High Fiber", "bonus", 8 * Unit)

\* C18: the four penalty caps add up to 90 and no bonus is negative, so no
\* call returns a score below 10: the total before the clamp is never below
\* 10, the lower clamp at 0 never binds, and band E comes with scores 10..19
\* only.
C18_ScoreAtLeastTen ==
    /\ SugarPenalty(PyInf, SCORING_THRESHOLDS).v
          + SatFatPenalty(PyInf, SCORING_THRESHOLDS).v
          + SodiumPenalty(PyInf).v + EnergyPenalty(PyInf).v = 90 * Unit
    /\ ReturnedOk =>
          /\ \A i \in 1..Len(result.breakdown.bonuses) :
                result.breakdown.bonuses[i].bonus >= 0
          /\ Total(result.breakdown.penalties, "penalty") <= 90 * Unit
          /\ ~Less64(RecordedTotal(result.breakdown), Exactly(10 * Unit))
          /\ result.score >= 10
          /\ result.band = "E" => result.score \in 10..19

\* every penalty at its cap and no bonus: 100 - 30 - 25 - 25 - 10
C18_Witness ==
    /\ ReturnedOk
    /\ Total(result.breakdown.penalties, "penalty") = 90 * Unit
    /\ Total(result.breakdown.bonuses, "bonus") = 0
    /\ result.score = 10
    /\ result.band = "E"
=============================================================================
